---- MODULE Spec2Model ----
(***************************************************************************)
(* Model of the seat-selection and booking wizard of                       *)
(* src/frontend/src/App.js: the SeatSelection component (the wizard), the  *)
(* HomePage component that mounts it, and the user of the AuthProvider.    *)
(*                                                                         *)
(* JavaScript arrays are 0-based, the sequences here are 1-based: position *)
(* i of a sequence is index i-1 of the array.                              *)
(***************************************************************************)
EXTENDS Integers, Sequences, FiniteSets, TLC

\* ------------------------------------------------------------- bounds
NumSeats == 3          \* seats of the seat map the server returns (the last is booked)
BigSeats == 7          \* free seats of the seat map of the capacity specification
MaxEdits == 2          \* passenger field edits in one run
MaxInFlight == 2       \* requests in flight, of all three kinds together
MaxListReqs == 2       \* MyBookings requests in flight, of both kinds together
MaxPages == 3          \* pages the server has of the bookings of the filter "all"
MaxAuthReqs == 3       \* AuthProvider requests in flight, of all kinds together

\* ------------------------------------------------------------- constants
MaxSelectable == 6     \* App.js:1287, selectedSeats.length >= 6

Null == "null"
Blank == [name |-> "", age |-> "", gender |-> "male"]
\* useState(null) of HomePage's searchResults, and a list of buses found
NoResults == [found |-> FALSE, buses |-> {}]
Results(buses) == [found |-> TRUE, buses |-> buses]
\* useState(null) of HomePage's booking: no booking record is held
NoBooking == [schedule_id |-> Null, seats |-> <<>>]

Steps == {"seats", "passengers", "payment"}
Fields == {"name", "age", "gender"}
Names == {"", "a"}
\* two of the three options of the gender select
Genders == {"male", "female"}
\* what the user types into the age box
AgeTexts == {"", "x", "0", "25"}
NumericTexts == {"0", "25"}

Users == {"u1"}
\* the token the server issues to a user, and the user a token is the token of
TokenOf(u) == [of |-> u]
UserOf(t) == t.of
\* useState(null) of the token: no token is held
NoToken == [of |-> Null]
SearchBuses == {"s1"}

\* a value JavaScript leaves undefined
Undefined == "undefined"

\* the errors a request is rejected with: a response carrying a detail
\* (a seat taken by somebody else, another server error) or no response
BookingErrors == {"SeatConflict", "ServerError", "FetchError"}
FetchErrors == {"ServerError", "FetchError"}
\* error.response?.data?.detail
ErrorDetail(error) == IF error = "FetchError" THEN Undefined ELSE error
\* detail || "Something went wrong"
OrSomethingWentWrong(detail) ==
    IF detail \in {"", Undefined} THEN "Something went wrong" ELSE detail

\* the toasts of the wizard and of HomePage
Toast(title, description) == [title |-> title, description |-> description]
ToastMaxSeats == Toast("Maximum 6 seats can be selected", Undefined)
ToastLoginToBook == Toast("Please login to book tickets", Undefined)
ToastConfirmed == Toast("Booking confirmed successfully!", Undefined)
ToastBookingFailed(error) ==
    Toast("Booking failed", OrSomethingWentWrong(ErrorDetail(error)))
ToastSearchFailed(error) ==
    Toast("Search failed", OrSomethingWentWrong(ErrorDetail(error)))
ToastLoginToSelect == Toast("Please login to select seats", Undefined)
ToastSeatsFailed(error) == Toast("Failed to load seats", ErrorDetail(error))
NoToast == Toast("none", Undefined)

VARIABLES
    user,             \* AuthProvider: the logged-in user or Null
    searchResults,    \* HomePage: NoResults or the buses found
    selectedBus,      \* HomePage: Null or the schedule_id of the bus of the wizard
    seats,            \* HomePage: the seat map handed to the wizard
    booking,          \* HomePage: NoBooking or the booking record shown
    loading,          \* HomePage: a search or a seat-map load is running
    selectedSeats,    \* SeatSelection: seat numbers in click order
    passengerDetails, \* SeatSelection: one record per position
    currentStep,      \* SeatSelection: the tab shown
    isLoading,        \* SeatSelection: the submitting flag
    bookReqs,         \* POST /book-tickets requests in flight, in issue order
    searchReqs,       \* POST /search-buses requests in flight
    seatReqs,         \* GET /bus-seats requests in flight (their schedule_ids)
    edits,            \* passenger field edits made so far
    toast,            \* the toast the last handler of HomePage or SeatSelection raised
    lastCall,         \* the last handler of HomePage or SeatSelection and its branch
    token,            \* AuthProvider: the token state
    storedToken,      \* localStorage's token
    authLoading,      \* AuthProvider: loading
    profileReqs,      \* GET /profile requests in flight (the token each was sent with)
    loginReqs,        \* POST /login and /register requests in flight (the user each is for)
    filter,           \* MyBookings: the filter tab
    page,             \* MyBookings: the page asked for
    totalPages,       \* MyBookings: total_pages of the last response
    bookings,         \* MyBookings: the list of the last response
    bookingsLoading,  \* MyBookings: loading
    listReqs,         \* GET /my-bookings requests in flight (filter and page of each)
    cancelReqs        \* POST /cancel-booking requests in flight (filter and page of the render clicked in)

homeVars == <<searchResults, selectedBus, seats, booking, loading>>
wizVars == <<selectedSeats, passengerDetails, currentStep, isLoading>>
netVars == <<bookReqs, searchReqs, seatReqs>>
authVars == <<token, storedToken, authLoading, profileReqs, loginReqs>>
listVars == <<filter, page, totalPages, bookings, bookingsLoading, listReqs, cancelReqs>>
auxVars == <<authVars, listVars>>
appVars == <<user, homeVars, wizVars, netVars, edits, toast, lastCall>>
vars == <<appVars, auxVars>>

\* ------------------------------------------------------------- helpers
InFlight == Len(bookReqs) + searchReqs + Len(seatReqs)
Includes(seq, x) == \E i \in 1..Len(seq) : seq[i] = x
Filter(seq, x) == SelectSeq(seq, LAMBDA s : s # x)
IndexOf(seq, x) == CHOOSE i \in 1..Len(seq) : seq[i] = x
Remove(seq, i) == [j \in 1..(Len(seq) - 1) |-> IF j < i THEN seq[j] ELSE seq[j + 1]]
Call(op, branch) == [op |-> op, branch |-> branch]

\* the seat map GET /bus-seats answers for a bus with n seats, the last booked
SeatMapOf(n) == [i \in 1..n |-> [seat_number |-> i, is_booked |-> (i = n)]]
\* the buses of a search that finds two schedules
RaceBuses == {"s1", "s2"}
\* response.data.seats of GET /bus-seats/{schedule_id}: the second schedule
\* has its first seat booked
SeatMapFor(bus) ==
    IF bus \in SearchBuses THEN SeatMapOf(NumSeats)
    ELSE [i \in 1..NumSeats |-> [seat_number |-> i, is_booked |-> (i = 1)]]
\* a seat map of BigSeats free seats and one booked seat
BigSeatMap == SeatMapOf(BigSeats + 1)
SeatsOf(map) == {map[i] : i \in 1..Len(map)}

\* the state of one SeatSelection instance
W == [selectedSeats |-> selectedSeats, passengerDetails |-> passengerDetails,
      currentStep |-> currentStep, isLoading |-> isLoading]
FreshW == [selectedSeats |-> <<>>, passengerDetails |-> <<>>,
           currentStep |-> "seats", isLoading |-> FALSE]
SetW(w) ==
    /\ selectedSeats' = w.selectedSeats
    /\ passengerDetails' = w.passengerDetails
    /\ currentStep' = w.currentStep
    /\ isLoading' = w.isLoading

\* HomePage renders the wizard when no booking is shown and a bus is selected
MountedIn(sb, bk) == bk = NoBooking /\ sb # Null
Mounted == MountedIn(selectedBus, booking)
HomeShown == booking = NoBooking /\ selectedBus = Null

\* ------------------------------------------------------------- SeatSelection
\* JavaScript's !value for the strings of a passenger record
Falsy(str) == str \in {"", Undefined}

\* the value of <input type="number"> for a typed text: the element reports
\* the empty string unless the text is a number
NumberInputValue(text) == IF text \in NumericTexts THEN text ELSE ""

\* e.target.value of the three inputs of a passenger card
InputValues(field) ==
    IF field = "name" THEN Names
    ELSE IF field = "age" THEN {NumberInputValue(t) : t \in AgeTexts}
    ELSE Genders

\* a roster rebuilt from the old roster instead of the new selection
NewPassengerDetails_overOldRoster(newSelectedSeats, details) == details

\* a roster rebuilt without looking at the old roster
NewPassengerDetails_allBlank(newSelectedSeats, details) ==
    [i \in 1..Len(newSelectedSeats) |-> Blank]

\* newSelectedSeats.map((seatNum, index) => passengerDetails[index] || blank)
NewPassengerDetails(newSelectedSeats, details) ==
    [i \in 1..Len(newSelectedSeats) |->
        IF i <= Len(details) THEN details[i] ELSE Blank]

\* the branch handleSeatClick takes
SeatClickBranch(w, seat) ==
    IF seat.is_booked THEN "booked"
    ELSE IF Includes(w.selectedSeats, seat.seat_number) THEN "deselect"
    ELSE IF Len(w.selectedSeats) >= MaxSelectable THEN "full"
    ELSE "select"

\* handleSeatClick with the capacity test off by one (> for >=)
handleSeatClick_offByOne(w, seat) ==
    IF seat.is_booked THEN w
    ELSE IF Includes(w.selectedSeats, seat.seat_number)
    THEN LET new == Filter(w.selectedSeats, seat.seat_number)
         IN [w EXCEPT !.selectedSeats = new,
                      !.passengerDetails = NewPassengerDetails(new, w.passengerDetails)]
    ELSE IF Len(w.selectedSeats) > MaxSelectable THEN w
    ELSE LET new == Append(w.selectedSeats, seat.seat_number)
         IN [w EXCEPT !.selectedSeats = new,
                      !.passengerDetails = NewPassengerDetails(new, w.passengerDetails)]

\* handleSeatClick without its first line, the test of seat.is_booked
handleSeatClick_noBookedTest(w, seat) ==
    IF Includes(w.selectedSeats, seat.seat_number)
    THEN LET new == Filter(w.selectedSeats, seat.seat_number)
         IN [w EXCEPT !.selectedSeats = new,
                      !.passengerDetails = NewPassengerDetails(new, w.passengerDetails)]
    ELSE IF Len(w.selectedSeats) >= MaxSelectable THEN w
    ELSE LET new == Append(w.selectedSeats, seat.seat_number)
         IN [w EXCEPT !.selectedSeats = new,
                      !.passengerDetails = NewPassengerDetails(new, w.passengerDetails)]

\* handleSeatClick putting a new seat in front of the selection
handleSeatClick_prepends(w, seat) ==
    IF seat.is_booked THEN w
    ELSE IF Includes(w.selectedSeats, seat.seat_number)
    THEN LET new == Filter(w.selectedSeats, seat.seat_number)
         IN [w EXCEPT !.selectedSeats = new,
                      !.passengerDetails = NewPassengerDetails(new, w.passengerDetails)]
    ELSE IF Len(w.selectedSeats) >= MaxSelectable THEN w
    ELSE LET new == <<seat.seat_number>> \o w.selectedSeats
         IN [w EXCEPT !.selectedSeats = new,
                      !.passengerDetails = NewPassengerDetails(new, w.passengerDetails)]

\* handleSeatClick without the test selectedSeats.includes(seat_number)
handleSeatClick_noIncludesTest(w, seat) ==
    IF seat.is_booked THEN w
    ELSE IF Len(w.selectedSeats) >= MaxSelectable THEN w
    ELSE LET new == Append(w.selectedSeats, seat.seat_number)
         IN [w EXCEPT !.selectedSeats = new,
                      !.passengerDetails = NewPassengerDetails(new, w.passengerDetails)]

\* handleSeatClick leaving the roster as it is when a seat is deselected
handleSeatClick_keepsRosterOnDeselect(w, seat) ==
    IF seat.is_booked THEN w
    ELSE IF Includes(w.selectedSeats, seat.seat_number)
    THEN [w EXCEPT !.selectedSeats = Filter(w.selectedSeats, seat.seat_number)]
    ELSE IF Len(w.selectedSeats) >= MaxSelectable THEN w
    ELSE LET new == Append(w.selectedSeats, seat.seat_number)
         IN [w EXCEPT !.selectedSeats = new,
                      !.passengerDetails = NewPassengerDetails(new, w.passengerDetails)]

\* handleSeatClick as a function of the wizard state
handleSeatClick(w, seat) ==
    IF seat.is_booked THEN w
    ELSE IF Includes(w.selectedSeats, seat.seat_number)
    THEN LET new == Filter(w.selectedSeats, seat.seat_number)
         IN [w EXCEPT !.selectedSeats = new,
                      !.passengerDetails = NewPassengerDetails(new, w.passengerDetails)]
    ELSE IF Len(w.selectedSeats) >= MaxSelectable THEN w
    ELSE LET new == Append(w.selectedSeats, seat.seat_number)
         IN [w EXCEPT !.selectedSeats = new,
                      !.passengerDetails = NewPassengerDetails(new, w.passengerDetails)]

\* the toast handleSeatClick raises
SeatClickToast(w, seat) ==
    IF SeatClickBranch(w, seat) = "full" THEN ToastMaxSeats ELSE NoToast

\* what {...updated[index]} spreads when updated[index] is undefined, and an
\* empty slot of an array: all three fields read as undefined
Hole == [name |-> Undefined, age |-> Undefined, gender |-> Undefined]

\* {...p, [field]: value}
SetField(p, field, value) ==
    IF field = "name" THEN [p EXCEPT !.name = value]
    ELSE IF field = "age" THEN [p EXCEPT !.age = value]
    ELSE [p EXCEPT !.gender = value]

\* handlePassengerDetailChange; index is the position, array index + 1.
\* An assignment past the end of the array lengthens it, an assignment to
\* a negative index leaves the elements and the length as they are.
handlePassengerDetailChange(w, index, field, value) ==
    LET old == w.passengerDetails
        len == IF index > Len(old) THEN index ELSE Len(old)
        updated == [k \in 1..len |-> IF k <= Len(old) THEN old[k] ELSE Hole]
    IN IF index < 1 THEN w
       ELSE [w EXCEPT !.passengerDetails =
                [updated EXCEPT ![index] = SetField(updated[index], field, value)]]

\* passengerDetails.some(p => !p.name || !p.age)
SomeIncomplete(details) ==
    \E i \in 1..Len(details) : Falsy(details[i].name) \/ Falsy(details[i].age)

\* TabsTriggers whose passengers tab is never disabled
TabDisabled_passengersOpen(w, step) ==
    IF step = "seats" THEN Len(w.selectedSeats) = 0 /\ w.currentStep # "seats"
    ELSE IF step = "passengers" THEN FALSE
    ELSE Len(w.selectedSeats) = 0 \/ SomeIncomplete(w.passengerDetails)

\* TabsTriggers whose seats tab is disabled on every other step
TabDisabled_seatsClosed(w, step) ==
    IF step = "seats" THEN Len(w.selectedSeats) = 0 \/ w.currentStep # "seats"
    ELSE IF step = "passengers" THEN Len(w.selectedSeats) = 0
    ELSE Len(w.selectedSeats) = 0 \/ SomeIncomplete(w.passengerDetails)

\* TabsTriggers whose payment tab looks at the selection only
TabDisabled_paymentOpen(w, step) ==
    IF step = "seats" THEN Len(w.selectedSeats) = 0 /\ w.currentStep # "seats"
    ELSE Len(w.selectedSeats) = 0

\* the disabled attribute of the three TabsTriggers
TabDisabled(w, step) ==
    IF step = "seats" THEN Len(w.selectedSeats) = 0 /\ w.currentStep # "seats"
    ELSE IF step = "passengers" THEN Len(w.selectedSeats) = 0
    ELSE Len(w.selectedSeats) = 0 \/ SomeIncomplete(w.passengerDetails)

\* bus.price of the bus a schedule_id stands for
PriceOf(bus) == IF bus \in SearchBuses THEN 500 ELSE 700

\* what a place of the wizard shows: nothing, or an amount in rupees
NoAmount == [shown |-> FALSE, amount |-> 0]
Amount(n) == [shown |-> TRUE, amount |-> n]

\* "Total: ..." of the seat step, rendered with a non-empty selection
SeatStepTotal(w, bus) ==
    IF Len(w.selectedSeats) > 0 THEN Amount(Len(w.selectedSeats) * PriceOf(bus))
    ELSE NoAmount

\* a summary that shows the price of one seat
PaymentSummaryTotal_onePrice(w, bus) == Amount(PriceOf(bus))

\* "Total Amount:" of the booking summary
PaymentSummaryTotal(w, bus) == Amount(Len(w.selectedSeats) * PriceOf(bus))

\* the label of the submit button: "Processing..." or "Pay ... & Confirm Booking"
SubmitLabelTotal(w, bus) ==
    IF w.isLoading THEN NoAmount ELSE Amount(Len(w.selectedSeats) * PriceOf(bus))

\* the disabled attribute of Continue to Payment
ContinueToPaymentDisabled(w) == SomeIncomplete(w.passengerDetails)

\* the disabled attribute of the submit button
SubmitDisabled(w) == w.isLoading

\* the body of POST /book-tickets
BookingRequest(w) ==
    [own |-> TRUE, schedule_id |-> selectedBus,
     seats |-> w.selectedSeats, passenger_details |-> w.passengerDetails]

\* response.data.booking for a request
BookingOf(req) == [schedule_id |-> req.schedule_id, seats |-> req.seats]

\* the requests of an instance that has been unmounted
Orphan(reqs) == [i \in 1..Len(reqs) |-> [reqs[i] EXCEPT !.own = FALSE]]

\* a HomePage state change under which the wizard's state outlives the
\* instance
HomeStep_keepsState(sb, bk, reqs) ==
    /\ selectedBus' = sb
    /\ booking' = bk
    /\ UNCHANGED wizVars
    /\ bookReqs' = reqs

\* HomePage state change to (sb, bk): the wizard instance lives on only
\* if it is rendered before and after
HomeStep(sb, bk, reqs) ==
    /\ selectedBus' = sb
    /\ booking' = bk
    /\ IF Mounted /\ MountedIn(sb, bk)
       THEN UNCHANGED wizVars /\ bookReqs' = reqs
       ELSE SetW(FreshW) /\ bookReqs' = Orphan(reqs)

\* a seat button of the grid is clicked; for a booked seat the button is
\* disabled and handleSeatClick returns at its first line, with the same result
ClickSeat(seat) ==
    /\ Mounted /\ currentStep = "seats"
    /\ seat \in SeatsOf(seats)
    /\ SetW(handleSeatClick(W, seat))
    /\ toast' = SeatClickToast(W, seat)
    /\ lastCall' = Call("handleSeatClick", SeatClickBranch(W, seat))
    /\ UNCHANGED <<user, homeVars, netVars, edits>>
    /\ UNCHANGED auxVars

\* a tab of the wizard is clicked: onValueChange={setCurrentStep}
ClickTab(step) ==
    /\ Mounted /\ step # currentStep
    /\ ~TabDisabled(W, step)
    /\ currentStep' = step
    /\ toast' = NoToast
    /\ lastCall' = Call("setCurrentStep", "set")
    /\ UNCHANGED <<user, homeVars, netVars, edits, selectedSeats, passengerDetails, isLoading>>
    /\ UNCHANGED auxVars

\* Continue to Passenger Details
ContinueToPassengers ==
    /\ Mounted /\ currentStep = "seats"
    /\ Len(selectedSeats) > 0
    /\ currentStep' = "passengers"
    /\ toast' = NoToast
    /\ lastCall' = Call("setCurrentStep", "set")
    /\ UNCHANGED <<user, homeVars, netVars, edits, selectedSeats, passengerDetails, isLoading>>
    /\ UNCHANGED auxVars

\* Continue to Payment
ContinueToPayment ==
    /\ Mounted /\ currentStep = "passengers"
    /\ ~ContinueToPaymentDisabled(W)
    /\ currentStep' = "payment"
    /\ toast' = NoToast
    /\ lastCall' = Call("setCurrentStep", "set")
    /\ UNCHANGED <<user, homeVars, netVars, edits, selectedSeats, passengerDetails, isLoading>>
    /\ UNCHANGED auxVars

\* a field of the passenger card at position index changes (onChange and
\* onValueChange fire when the value differs from the one shown)
ChangePassengerDetail(index, field, value) ==
    /\ Mounted /\ currentStep = "passengers"
    /\ index \in 1..Len(selectedSeats)
    /\ value \in InputValues(field)
    /\ edits < MaxEdits
    /\ handlePassengerDetailChange(W, index, field, value) # W
    /\ SetW(handlePassengerDetailChange(W, index, field, value))
    /\ edits' = edits + 1
    /\ toast' = NoToast
    /\ lastCall' = Call("handlePassengerDetailChange", "set")
    /\ UNCHANGED <<user, homeVars, netVars>>
    /\ UNCHANGED auxVars

\* handleBooking without the test of user
handleBooking_noUserTest ==
    /\ isLoading' = TRUE
    /\ bookReqs' = Append(bookReqs, BookingRequest(W))
    /\ toast' = NoToast
    /\ lastCall' = Call("handleBooking", "post")
    /\ UNCHANGED <<selectedSeats, passengerDetails, currentStep>>
    /\ UNCHANGED <<user, homeVars, searchReqs, seatReqs, edits>>
    /\ UNCHANGED auxVars

\* handleBooking without setIsLoading(true)
handleBooking_noSetLoading ==
    /\ IF user = Null
       THEN /\ toast' = ToastLoginToBook
            /\ lastCall' = Call("handleBooking", "nouser")
            /\ UNCHANGED <<wizVars, bookReqs>>
       ELSE /\ bookReqs' = Append(bookReqs, BookingRequest(W))
            /\ toast' = NoToast
            /\ lastCall' = Call("handleBooking", "post")
            /\ UNCHANGED wizVars
    /\ UNCHANGED <<user, homeVars, searchReqs, seatReqs, edits>>
    /\ UNCHANGED auxVars

\* handleBooking up to the await
handleBooking ==
    /\ IF user = Null
       THEN /\ toast' = ToastLoginToBook
            /\ lastCall' = Call("handleBooking", "nouser")
            /\ UNCHANGED <<wizVars, bookReqs>>
       ELSE /\ isLoading' = TRUE
            /\ bookReqs' = Append(bookReqs, BookingRequest(W))
            /\ toast' = NoToast
            /\ lastCall' = Call("handleBooking", "post")
            /\ UNCHANGED <<selectedSeats, passengerDetails, currentStep>>
    /\ UNCHANGED <<user, homeVars, searchReqs, seatReqs, edits>>
    /\ UNCHANGED auxVars

\* the submit button is clicked
SubmitClick ==
    /\ Mounted /\ currentStep = "payment"
    /\ ~SubmitDisabled(W)
    /\ InFlight < MaxInFlight
    /\ handleBooking

\* the try block without the call of onBookingComplete
BookingSucceeds_noComplete(i) ==
    /\ i \in 1..Len(bookReqs)
    /\ bookReqs' = Remove(bookReqs, i)
    /\ isLoading' = IF bookReqs[i].own THEN FALSE ELSE isLoading
    /\ toast' = ToastConfirmed
    /\ lastCall' = Call("handleBooking", IF bookReqs[i].own THEN "then" ELSE "late then")
    /\ UNCHANGED <<user, homeVars, searchReqs, seatReqs, edits,
                   selectedSeats, passengerDetails, currentStep>>
    /\ UNCHANGED auxVars

\* POST /book-tickets answers with a booking: the try block, then
\* handleBookingComplete, then the finally block
BookingSucceeds(i) ==
    /\ i \in 1..Len(bookReqs)
    /\ HomeStep(Null, BookingOf(bookReqs[i]), Remove(bookReqs, i))
    /\ searchResults' = NoResults
    /\ toast' = ToastConfirmed
    /\ lastCall' = Call("handleBooking", IF bookReqs[i].own THEN "then" ELSE "late then")
    /\ UNCHANGED <<user, seats, loading, searchReqs, seatReqs, edits>>
    /\ UNCHANGED auxVars

\* the catch block with the server's detail dropped from the toast
BookingRejected_dropsDetail(i, error) ==
    /\ i \in 1..Len(bookReqs)
    /\ bookReqs' = Remove(bookReqs, i)
    /\ isLoading' = IF bookReqs[i].own THEN FALSE ELSE isLoading
    /\ toast' = Toast("Booking failed", "Something went wrong")
    /\ lastCall' = Call("handleBooking", IF bookReqs[i].own THEN "catch" ELSE "late catch")
    /\ UNCHANGED <<user, homeVars, searchReqs, seatReqs, edits,
                   selectedSeats, passengerDetails, currentStep>>
    /\ UNCHANGED auxVars

\* a catch block that posts the rejected request again
BookingRejected_retries(i, error) ==
    /\ i \in 1..Len(bookReqs)
    /\ bookReqs' = Append(Remove(bookReqs, i), bookReqs[i])
    /\ toast' = ToastBookingFailed(error)
    /\ lastCall' = Call("handleBooking", IF bookReqs[i].own THEN "catch" ELSE "late catch")
    /\ UNCHANGED <<user, homeVars, searchReqs, seatReqs, edits, wizVars>>
    /\ UNCHANGED auxVars

\* the catch block without the finally block
BookingRejected_noFinally(i, error) ==
    /\ i \in 1..Len(bookReqs)
    /\ bookReqs' = Remove(bookReqs, i)
    /\ toast' = ToastBookingFailed(error)
    /\ lastCall' = Call("handleBooking", IF bookReqs[i].own THEN "catch" ELSE "late catch")
    /\ UNCHANGED <<user, homeVars, searchReqs, seatReqs, edits, wizVars>>
    /\ UNCHANGED auxVars

\* POST /book-tickets is rejected with error: the catch block, then the
\* finally block
BookingRejected(i, error) ==
    /\ i \in 1..Len(bookReqs)
    /\ bookReqs' = Remove(bookReqs, i)
    /\ isLoading' = IF bookReqs[i].own THEN FALSE ELSE isLoading
    /\ toast' = ToastBookingFailed(error)
    /\ lastCall' = Call("handleBooking", IF bookReqs[i].own THEN "catch" ELSE "late catch")
    /\ UNCHANGED <<user, homeVars, searchReqs, seatReqs, edits,
                   selectedSeats, passengerDetails, currentStep>>
    /\ UNCHANGED auxVars

\* POST /book-tickets fails
BookingFails(i) == \E error \in BookingErrors : BookingRejected(i, error)

\* ------------------------------------------------------------- HomePage
\* handleSearch up to the await
HandleSearch ==
    /\ HomeShown
    /\ InFlight < MaxInFlight
    /\ loading' = TRUE
    /\ searchReqs' = searchReqs + 1
    /\ toast' = NoToast
    /\ lastCall' = Call("handleSearch", "post")
    /\ UNCHANGED <<user, searchResults, selectedBus, seats, booking, wizVars,
                   bookReqs, seatReqs, edits>>
    /\ UNCHANGED auxVars

\* POST /search-buses answers with the list buses
SearchFinds(buses) ==
    /\ searchReqs > 0
    /\ searchReqs' = searchReqs - 1
    /\ searchResults' = Results(buses)
    /\ HomeStep(Null, NoBooking, bookReqs)
    /\ loading' = FALSE
    /\ toast' = NoToast
    /\ lastCall' = Call("handleSearch", "then")
    /\ UNCHANGED <<user, seats, seatReqs, edits>>
    /\ UNCHANGED auxVars

\* POST /search-buses answers
SearchSucceeds == SearchFinds(SearchBuses)

\* POST /search-buses fails
SearchFails ==
    /\ searchReqs > 0
    /\ searchReqs' = searchReqs - 1
    /\ loading' = FALSE
    /\ \E error \in FetchErrors : toast' = ToastSearchFailed(error)
    /\ lastCall' = Call("handleSearch", "catch")
    /\ UNCHANGED <<user, searchResults, selectedBus, seats, booking, wizVars,
                   bookReqs, seatReqs, edits>>
    /\ UNCHANGED auxVars

\* Select Seats of a bus of the result list: handleSelectBus up to the await
HandleSelectBus(bus) ==
    /\ HomeShown /\ searchResults # NoResults /\ ~loading
    /\ bus \in searchResults.buses
    /\ InFlight < MaxInFlight
    /\ IF user = Null
       THEN /\ toast' = ToastLoginToSelect
            /\ lastCall' = Call("handleSelectBus", "nouser")
            /\ UNCHANGED <<loading, seatReqs>>
       ELSE /\ loading' = TRUE
            /\ seatReqs' = Append(seatReqs, bus)
            /\ toast' = NoToast
            /\ lastCall' = Call("handleSelectBus", "get")
    /\ UNCHANGED <<user, searchResults, selectedBus, seats, booking, wizVars,
                   bookReqs, searchReqs, edits>>
    /\ UNCHANGED auxVars

\* GET /bus-seats answers
SeatsSucceeds(i) ==
    /\ i \in 1..Len(seatReqs)
    /\ seatReqs' = Remove(seatReqs, i)
    /\ seats' = SeatMapFor(seatReqs[i])
    /\ HomeStep(seatReqs[i], booking, bookReqs)
    /\ loading' = FALSE
    /\ toast' = NoToast
    /\ lastCall' = Call("handleSelectBus", "then")
    /\ UNCHANGED <<user, searchResults, searchReqs, edits>>
    /\ UNCHANGED auxVars

\* GET /bus-seats fails
SeatsFails(i) ==
    /\ i \in 1..Len(seatReqs)
    /\ seatReqs' = Remove(seatReqs, i)
    /\ loading' = FALSE
    /\ \E error \in FetchErrors : toast' = ToastSeatsFailed(error)
    /\ lastCall' = Call("handleSelectBus", "catch")
    /\ UNCHANGED <<user, searchResults, selectedBus, seats, booking, wizVars,
                   bookReqs, searchReqs, edits>>
    /\ UNCHANGED auxVars

\* Back to Results
BackToResults ==
    /\ Mounted
    /\ HomeStep(Null, booking, bookReqs)
    /\ toast' = NoToast
    /\ lastCall' = Call("setSelectedBus", "back")
    /\ UNCHANGED <<user, searchResults, seats, loading, searchReqs, seatReqs, edits>>
    /\ UNCHANGED auxVars

\* Search More Buses
SearchMoreBuses ==
    /\ booking # NoBooking
    /\ HomeStep(selectedBus, NoBooking, bookReqs)
    /\ toast' = NoToast
    /\ lastCall' = Call("setBooking", "more")
    /\ UNCHANGED <<user, searchResults, seats, loading, searchReqs, seatReqs, edits>>
    /\ UNCHANGED auxVars

\* ------------------------------------------------------------- AuthProvider
\* login or register succeeds (the toasts of AuthForm are not recorded)
Login(u) ==
    /\ user = Null
    /\ user' = u
    /\ token' = TokenOf(u)
    /\ storedToken' = TokenOf(u)
    /\ UNCHANGED <<homeVars, wizVars, netVars, edits, toast, lastCall>>
    /\ UNCHANGED <<authLoading, profileReqs, loginReqs, listVars>>

Logout ==
    /\ user # Null
    /\ user' = Null
    /\ token' = NoToken
    /\ storedToken' = NoToken
    /\ UNCHANGED <<homeVars, wizVars, netVars, edits, toast, lastCall>>
    /\ UNCHANGED <<authLoading, profileReqs, loginReqs, listVars>>

\* ------------------------------------------------------------- specifications
\* MyBookings before its first effect: the useState values, nothing in flight
ListIdle ==
    /\ filter = "all"
    /\ page = 1
    /\ totalPages = 1
    /\ bookings = <<>>
    /\ bookingsLoading = TRUE
    /\ listReqs = <<>>
    /\ cancelReqs = <<>>

\* AuthProvider settled for the user u (or nobody), nothing in flight
AuthSettled(u) ==
    /\ token = (IF u = Null THEN NoToken ELSE TokenOf(u))
    /\ storedToken = token
    /\ authLoading = FALSE
    /\ profileReqs = <<>>
    /\ loginReqs = <<>>

Init ==
    /\ user = Null
    /\ AuthSettled(user)
    /\ ListIdle
    /\ searchResults = NoResults
    /\ selectedBus = Null
    /\ seats = <<>>
    /\ booking = NoBooking
    /\ loading = FALSE
    /\ selectedSeats = <<>>
    /\ passengerDetails = <<>>
    /\ currentStep = "seats"
    /\ isLoading = FALSE
    /\ bookReqs = <<>>
    /\ searchReqs = 0
    /\ seatReqs = <<>>
    /\ edits = 0
    /\ toast = NoToast
    /\ lastCall = Call("mount", "init")

Next ==
    \/ \E u \in Users : Login(u)
    \/ Logout
    \/ HandleSearch
    \/ SearchSucceeds
    \/ SearchFails
    \/ \E bus \in SearchBuses : HandleSelectBus(bus)
    \/ \E i \in 1..MaxInFlight : SeatsSucceeds(i)
    \/ \E i \in 1..MaxInFlight : SeatsFails(i)
    \/ BackToResults
    \/ SearchMoreBuses
    \/ \E seat \in SeatsOf(seats) : ClickSeat(seat)
    \/ \E step \in Steps : ClickTab(step)
    \/ ContinueToPassengers
    \/ ContinueToPayment
    \/ \E index \in 1..MaxSelectable, field \in Fields :
         \E value \in InputValues(field) : ChangePassengerDetail(index, field, value)
    \/ SubmitClick
    \/ \E i \in 1..MaxInFlight : BookingSucceeds(i)
    \/ \E i \in 1..MaxInFlight : BookingFails(i)

Spec == Init /\ [][Next]_vars

\* The whole application when a search finds two schedules whose seat maps
\* differ.
NextRace ==
    \/ \E u \in Users : Login(u)
    \/ Logout
    \/ HandleSearch
    \/ SearchFinds(RaceBuses)
    \/ SearchFails
    \/ \E bus \in RaceBuses : HandleSelectBus(bus)
    \/ \E i \in 1..MaxInFlight : SeatsSucceeds(i)
    \/ \E i \in 1..MaxInFlight : SeatsFails(i)
    \/ BackToResults
    \/ SearchMoreBuses
    \/ \E seat \in SeatsOf(seats) : ClickSeat(seat)
    \/ \E step \in Steps : ClickTab(step)
    \/ ContinueToPassengers
    \/ ContinueToPayment
    \/ \E index \in 1..MaxSelectable, field \in Fields :
         \E value \in InputValues(field) : ChangePassengerDetail(index, field, value)
    \/ SubmitClick
    \/ \E i \in 1..MaxInFlight : BookingSucceeds(i)
    \/ \E i \in 1..MaxInFlight : BookingFails(i)

SpecRace == Init /\ [][NextRace]_vars

\* ------------------------------------------------------------- AuthProvider
\* the users that can log in or register
AuthUsers == {"u1", "u2"}
AuthKinds == {"login", "register"}
\* the state outside AuthProvider's
restVars == <<homeVars, wizVars, netVars, edits, toast, lastCall, listVars>>

\* useEffect(..., [token]) after the token state went from old to new:
\* the requests in flight after it
ProfileReqsAfter(old, new, reqs) ==
    IF new # old /\ new # NoToken THEN Append(reqs, new) ELSE reqs

\* login(email, password) or register(userData) up to the await
AuthSubmit(kind, u) ==
    /\ ~authLoading /\ user = Null
    /\ Len(loginReqs) + Len(profileReqs) < MaxAuthReqs
    /\ loginReqs' = Append(loginReqs, [kind |-> kind, user |-> u])
    /\ UNCHANGED <<user, token, storedToken, authLoading, profileReqs, restVars>>

\* POST /login or /register answers with a token and a user
AuthAnswers(i) ==
    /\ i \in 1..Len(loginReqs)
    /\ loginReqs' = Remove(loginReqs, i)
    /\ storedToken' = TokenOf(loginReqs[i].user)
    /\ token' = TokenOf(loginReqs[i].user)
    /\ user' = loginReqs[i].user
    /\ profileReqs' = ProfileReqsAfter(token, TokenOf(loginReqs[i].user), profileReqs)
    /\ UNCHANGED <<authLoading, restVars>>

\* POST /login or /register fails: the await throws into AuthForm
AuthRejected(i) ==
    /\ i \in 1..Len(loginReqs)
    /\ loginReqs' = Remove(loginReqs, i)
    /\ UNCHANGED <<user, token, storedToken, authLoading, profileReqs, restVars>>

\* GET /profile answers: the try block and the finally block of fetchProfile
FetchProfileSucceeds(i) ==
    /\ i \in 1..Len(profileReqs)
    /\ profileReqs' = Remove(profileReqs, i)
    /\ user' = UserOf(profileReqs[i])
    /\ authLoading' = FALSE
    /\ UNCHANGED <<token, storedToken, loginReqs, restVars>>

\* GET /profile fails: the catch block and the finally block of fetchProfile
FetchProfileFails(i) ==
    /\ i \in 1..Len(profileReqs)
    /\ profileReqs' = Remove(profileReqs, i)
    /\ storedToken' = NoToken
    /\ token' = NoToken
    /\ authLoading' = FALSE
    /\ UNCHANGED <<user, loginReqs, restVars>>

\* logout
AuthLogout ==
    /\ ~authLoading /\ user # Null
    /\ storedToken' = NoToken
    /\ token' = NoToken
    /\ user' = Null
    /\ UNCHANGED <<authLoading, profileReqs, loginReqs, restVars>>

\* AuthProvider mounts with or without a token in localStorage; its first
\* effect has run
InitAuth ==
    /\ user = Null
    /\ storedToken \in {NoToken} \cup {TokenOf(u) : u \in AuthUsers}
    /\ token = storedToken
    /\ authLoading = (token # NoToken)
    /\ profileReqs = (IF token # NoToken THEN <<token>> ELSE <<>>)
    /\ loginReqs = <<>>
    /\ ListIdle
    /\ searchResults = NoResults /\ selectedBus = Null /\ seats = <<>>
    /\ booking = NoBooking /\ loading = FALSE
    /\ selectedSeats = <<>> /\ passengerDetails = <<>>
    /\ currentStep = "seats" /\ isLoading = FALSE
    /\ bookReqs = <<>> /\ searchReqs = 0 /\ seatReqs = <<>>
    /\ edits = 0 /\ toast = NoToast /\ lastCall = Call("mount", "init")

NextAuth ==
    \/ \E kind \in AuthKinds, u \in AuthUsers : AuthSubmit(kind, u)
    \/ \E i \in 1..MaxAuthReqs : AuthAnswers(i)
    \/ \E i \in 1..MaxAuthReqs : AuthRejected(i)
    \/ \E i \in 1..MaxAuthReqs : FetchProfileSucceeds(i)
    \/ \E i \in 1..MaxAuthReqs : FetchProfileFails(i)
    \/ AuthLogout

SpecAuth == InitAuth /\ [][NextAuth]_vars

\* ------------------------------------------------------------- MyBookings
\* two of the four filter tabs
Filters == {"all", "confirmed"}
\* the state outside MyBookings'
outsideList == <<user, homeVars, wizVars, netVars, edits, lastCall, authVars>>

\* response.data.total_pages: the confirmed bookings fill one page
TotalPagesOf(f) == IF f = "all" THEN MaxPages ELSE 1
\* response.data.bookings: empty for a page the filter does not have
BookingsOf(f, p) == IF p <= TotalPagesOf(f) THEN <<[filter |-> f, page |-> p]>> ELSE <<>>
\* the pagination row is rendered
PaginationShown == Len(bookings) > 0 /\ totalPages > 1

\* fetchBookings up to the await, for a render with filter f and page p
FetchBookings(f, p) ==
    /\ bookingsLoading' = TRUE
    /\ listReqs' = Append(listReqs, [filter |-> f, page |-> p])

\* a filter tab is clicked: setFilter, then the effect on [filter, page]
SetFilter(f) ==
    /\ ~bookingsLoading /\ f # filter
    /\ Len(listReqs) + Len(cancelReqs) < MaxListReqs
    /\ filter' = f
    /\ FetchBookings(f, page)
    /\ UNCHANGED <<page, totalPages, bookings, cancelReqs, toast, outsideList>>

\* Previous is clicked
PreviousPage ==
    /\ ~bookingsLoading /\ PaginationShown /\ page # 1
    /\ Len(listReqs) + Len(cancelReqs) < MaxListReqs
    /\ page' = page - 1
    /\ FetchBookings(filter, page - 1)
    /\ UNCHANGED <<filter, totalPages, bookings, cancelReqs, toast, outsideList>>

\* Next is clicked
NextPage ==
    /\ ~bookingsLoading /\ PaginationShown /\ page # totalPages
    /\ page <= MaxPages
    /\ Len(listReqs) + Len(cancelReqs) < MaxListReqs
    /\ page' = page + 1
    /\ FetchBookings(filter, page + 1)
    /\ UNCHANGED <<filter, totalPages, bookings, cancelReqs, toast, outsideList>>

\* GET /my-bookings answers: the try block and the finally block
FetchBookingsSucceeds(i) ==
    /\ i \in 1..Len(listReqs)
    /\ listReqs' = Remove(listReqs, i)
    /\ bookings' = BookingsOf(listReqs[i].filter, listReqs[i].page)
    /\ totalPages' = TotalPagesOf(listReqs[i].filter)
    /\ bookingsLoading' = FALSE
    /\ UNCHANGED <<filter, page, cancelReqs, toast, outsideList>>

\* GET /my-bookings fails: the catch block and the finally block
FetchBookingsFails(i) ==
    /\ i \in 1..Len(listReqs)
    /\ listReqs' = Remove(listReqs, i)
    /\ bookingsLoading' = FALSE
    /\ \E error \in FetchErrors :
          toast' = Toast("Failed to fetch bookings", ErrorDetail(error))
    /\ UNCHANGED <<filter, page, totalPages, bookings, cancelReqs, outsideList>>

\* handleCancelBooking up to the await, on a card of the list shown
CancelBooking ==
    /\ ~bookingsLoading /\ Len(bookings) > 0
    /\ Len(listReqs) + Len(cancelReqs) < MaxListReqs
    /\ cancelReqs' = Append(cancelReqs, [filter |-> filter, page |-> page])
    /\ UNCHANGED <<filter, page, totalPages, bookings, bookingsLoading, listReqs,
                   toast, outsideList>>

\* POST /cancel-booking answers: the toast, then fetchBookings of the
\* render the card was clicked in
CancelSucceeds(i) ==
    /\ i \in 1..Len(cancelReqs)
    /\ cancelReqs' = Remove(cancelReqs, i)
    /\ FetchBookings(cancelReqs[i].filter, cancelReqs[i].page)
    /\ toast' = Toast("Booking cancelled successfully", "Refund amount")
    /\ UNCHANGED <<filter, page, totalPages, bookings, outsideList>>

\* POST /cancel-booking fails
CancelFails(i) ==
    /\ i \in 1..Len(cancelReqs)
    /\ cancelReqs' = Remove(cancelReqs, i)
    /\ \E error \in FetchErrors :
          toast' = Toast("Cancellation failed", ErrorDetail(error))
    /\ UNCHANGED <<filter, page, totalPages, bookings, bookingsLoading, listReqs,
                   outsideList>>

\* MyBookings mounts for a logged-in user; its first effect has run
InitList ==
    /\ user \in Users
    /\ AuthSettled(user)
    /\ filter = "all" /\ page = 1 /\ totalPages = 1
    /\ bookings = <<>>
    /\ bookingsLoading = TRUE
    /\ listReqs = <<[filter |-> "all", page |-> 1]>>
    /\ cancelReqs = <<>>
    /\ searchResults = NoResults /\ selectedBus = Null /\ seats = <<>>
    /\ booking = NoBooking /\ loading = FALSE
    /\ selectedSeats = <<>> /\ passengerDetails = <<>>
    /\ currentStep = "seats" /\ isLoading = FALSE
    /\ bookReqs = <<>> /\ searchReqs = 0 /\ seatReqs = <<>>
    /\ edits = 0 /\ toast = NoToast /\ lastCall = Call("mount", "init")

NextList ==
    \/ \E f \in Filters : SetFilter(f)
    \/ PreviousPage
    \/ NextPage
    \/ \E i \in 1..MaxListReqs : FetchBookingsSucceeds(i)
    \/ \E i \in 1..MaxListReqs : FetchBookingsFails(i)
    \/ CancelBooking
    \/ \E i \in 1..MaxListReqs : CancelSucceeds(i)
    \/ \E i \in 1..MaxListReqs : CancelFails(i)

SpecList == InitList /\ [][NextList]_vars

\* The wizard alone, opened on a bus whose seat map has more free seats than
\* one booking may hold.
InitCap ==
    /\ user \in Users
    /\ AuthSettled(user)
    /\ ListIdle
    /\ searchResults = Results(SearchBuses)
    /\ selectedBus \in SearchBuses
    /\ seats = BigSeatMap
    /\ booking = NoBooking
    /\ loading = FALSE
    /\ selectedSeats = <<>>
    /\ passengerDetails = <<>>
    /\ currentStep = "seats"
    /\ isLoading = FALSE
    /\ bookReqs = <<>>
    /\ searchReqs = 0
    /\ seatReqs = <<>>
    /\ edits = 0
    /\ toast = NoToast
    /\ lastCall = Call("mount", "init")

NextCap ==
    \/ \E seat \in SeatsOf(seats) : ClickSeat(seat)
    \/ \E step \in Steps : ClickTab(step)
    \/ ContinueToPassengers

SpecCap == InitCap /\ [][NextCap]_vars

\* ------------------------------------------------------------- properties
\* the seats of the grid by what a click on them does
Grid == SeatsOf(seats)
IsSelected(seat) == Includes(selectedSeats, seat.seat_number)
\* the roster entry of a selected seat number in a wizard state
DetailOf(w, num) == w.passengerDetails[IndexOf(w.selectedSeats, num)]
\* the seat numbers of a selection
Members(sel) == {sel[i] : i \in 1..Len(sel)}
\* the own request of the mounted wizard is in flight
OwnInFlight == \E i \in 1..Len(bookReqs) : bookReqs[i].own

\* C1: in every reachable state the roster has exactly as many entries as
\* the selection has seats.
C1_RosterLenEqualsSelectionLen == Len(passengerDetails) = Len(selectedSeats)

\* C1 witness: a deselection has just shortened a selection whose roster
\* had been edited, and a seat is still selected.
C1_Witness ==
    /\ lastCall = Call("handleSeatClick", "deselect")
    /\ edits > 0
    /\ Len(selectedSeats) > 0

\* C2: the selection never holds more than 6 seats, and with 6 seats selected
\* a click on a free seat that is not selected changes neither the selection
\* nor the roster and raises the maximum-seats toast.
C2_CapacitySix ==
    /\ Len(selectedSeats) <= 6
    /\ Len(selectedSeats) = 6 =>
         \A seat \in Grid :
            (~seat.is_booked /\ ~IsSelected(seat)) =>
               /\ handleSeatClick(W, seat) = W
               /\ SeatClickToast(W, seat) = ToastMaxSeats

\* C2 witness: six seats are selected and the click on a seventh has just
\* been refused with the toast.
C2_Witness ==
    /\ Len(selectedSeats) = 6
    /\ lastCall = Call("handleSeatClick", "full")
    /\ toast = ToastMaxSeats

\* C3 (as claimed): after deselecting any selected seat, every seat that
\* remains selected has at its new position the passenger detail it had
\* before the deselection.
C3_DeselectKeepsDetailOfEachSeat ==
    Mounted =>
      \A seat \in Grid :
         IsSelected(seat) =>
            LET w1 == handleSeatClick(W, seat)
            IN \A num \in Members(w1.selectedSeats) :
                  DetailOf(w1, num) = DetailOf(W, num)

C5_BookedSeatClickIsNoOp ==
    \A seat \in Grid :
       seat.is_booked => /\ handleSeatClick(W, seat) = W
                         /\ SeatClickToast(W, seat) = NoToast

\* C5 witness: a booked seat has just been clicked with a full selection.
C5_Witness ==
    /\ lastCall = Call("handleSeatClick", "booked")
    /\ Len(selectedSeats) = MaxSelectable

\* an entry the passenger step may let through: a name, and an age that is
\* a positive number
PositiveAges == {"25"}
ValidEntry(p) == p.name # "" /\ p.age \in PositiveAges
RosterValid == \A i \in 1..Len(passengerDetails) : ValidEntry(passengerDetails[i])

\* C6 (as claimed): at the passenger step both ways to the payment step (the
\* Continue to Payment button and the Payment tab) are refused whenever some
\* entry has an empty name or an age that is not a positive number, and the
\* button is enabled once every entry is valid.
C6_PaymentGateRefusesInvalidAge ==
    (Mounted /\ currentStep = "passengers") =>
       /\ ~RosterValid => (ContinueToPaymentDisabled(W) /\ TabDisabled(W, "payment"))
       /\ RosterValid => ~ContinueToPaymentDisabled(W)

\* C7 (as claimed): while a booking request of the mounted wizard is in
\* flight, handleBooking itself refuses to issue another request.
C7_HandlerRejectsSecondSubmit ==
    OwnInFlight => ~ENABLED (handleBooking /\ Len(bookReqs') > Len(bookReqs))

\* C8 (as claimed): while a booking request of the mounted wizard is in
\* flight, selection and roster are what the request was issued with and the
\* step is still the payment step.
C8_FrozenWhileSubmitting ==
    \A i \in 1..Len(bookReqs) :
       bookReqs[i].own =>
          /\ selectedSeats = bookReqs[i].seats
          /\ passengerDetails = bookReqs[i].passenger_details
          /\ currentStep = "payment"

\* C9 (as claimed): the response to a booking request whose wizard has been
\* left changes nothing of HomePage and of the wizard now shown.
C9_LateResponseChangesNothing ==
    [][\A i \in 1..Len(bookReqs) :
          (~bookReqs[i].own /\ (BookingSucceeds(i) \/ BookingFails(i)))
             => UNCHANGED <<homeVars, wizVars>>]_vars

\* C10 (as claimed): when a booking request of the mounted wizard fails,
\* selection and roster are what the request was issued with.
C10_FailureLeavesIssuedData ==
    [][\A i \in 1..Len(bookReqs) :
          (bookReqs[i].own /\ BookingFails(i))
             => /\ selectedSeats' = bookReqs[i].seats
                /\ passengerDetails' = bookReqs[i].passenger_details]_vars

C12_SuccessShowsReturnedBooking ==
    [][\A i \in 1..Len(bookReqs) :
          (bookReqs[i].own /\ BookingSucceeds(i))
              => /\ booking' = BookingOf(bookReqs[i])
                 /\ booking' # NoBooking
                 /\ selectedBus' = Null
                 /\ ~Mounted']_vars

\* the completed view right after the wizard's own request succeeded
C12_Witness ==
    /\ lastCall = Call("handleBooking", "then")
    /\ toast = ToastConfirmed
    /\ booking # NoBooking /\ Len(booking.seats) > 0
    /\ ~Mounted

\* C13: Back to Results (start over) is enabled whenever the wizard is
\* shown, whatever its step and whether or not it is submitting; and every
\* step at which a wizard comes to be shown (after a start-over, after a
\* booking, or for the first time) shows it with an empty selection, an
\* empty roster, the seat step, not submitting, and with no booking held.
C13_StartOverAlwaysAndFreshSession ==
    /\ [](Mounted => ENABLED BackToResults)
    /\ [][(~Mounted /\ Mounted')
            => /\ selectedSeats' = <<>> /\ passengerDetails' = <<>>
               /\ currentStep' = "seats" /\ isLoading' = FALSE
               /\ booking' = NoBooking]_vars

\* a wizard session that has just begun after an earlier session in which
\* passenger fields were edited
C13_Witness ==
    /\ Mounted /\ W = FreshW
    /\ lastCall = Call("handleSelectBus", "then")
    /\ edits > 0

\* C14: every selected seat is a seat of the seat map the wizard shows and
\* is not booked in that map.
C14_SelectionWithinShownMap ==
    Mounted => \A k \in 1..Len(selectedSeats) :
                  \E seat \in SeatsOf(seats) :
                      seat.seat_number = selectedSeats[k] /\ ~seat.is_booked

\* C15: a step puts at most one booking request in flight, and a step that
\* puts one in flight is a click on the submit button posting the wizard's
\* data; a step that reports a failure removes the failed request and puts
\* none in flight.
C15_OneRequestPerSubmitClick ==
    [][/\ Len(bookReqs') <= Len(bookReqs) + 1
       /\ Len(bookReqs') > Len(bookReqs)
             => SubmitClick /\ bookReqs' = Append(bookReqs, BookingRequest(W))
       /\ \A i \in 1..Len(bookReqs) :
             BookingFails(i) => Len(bookReqs') = Len(bookReqs) - 1]_vars

\* a request of the wizard has failed and none is in flight
C15_Witness ==
    /\ Mounted /\ currentStep = "payment"
    /\ lastCall = Call("handleBooking", "catch")
    /\ toast = ToastBookingFailed("ServerError")
    /\ bookReqs = <<>>

\* C16: whenever the wizard is shown the user is logged in, and a click on
\* Select Seats by nobody logged in issues no seat-map request and changes
\* neither HomePage nor the wizard.
C16_WizardOnlyForAuthenticatedUser ==
    [][/\ Mounted' => user' # Null
       /\ \A bus \in SearchBuses :
             (user = Null /\ HandleSelectBus(bus))
                 => UNCHANGED <<homeVars, wizVars, netVars>>]_vars

\* C17: a step of the wizard from the seat step to the passenger step is
\* taken only with at least one seat selected; with an empty selection the
\* passengers tab is disabled and Continue to Passenger Details is not
\* offered.
C17_PassengerStepNeedsASeat ==
    [][/\ (Mounted /\ Mounted' /\ currentStep = "seats" /\ currentStep' = "passengers")
            => Len(selectedSeats) > 0
       /\ (Mounted /\ currentStep = "seats" /\ Len(selectedSeats) = 0)
            => /\ TabDisabled(W, "passengers")
               /\ ~ENABLED ContinueToPassengers
               /\ ~ENABLED ClickTab("passengers")]_vars

\* the passenger step has just been entered from the seat step
C17_Witness ==
    /\ Mounted /\ currentStep = "passengers"
    /\ lastCall = Call("setCurrentStep", "set")
    /\ Len(selectedSeats) > 0
    /\ passengerDetails = [i \in 1..Len(selectedSeats) |-> Blank]

\* C18: on the passenger step the seats tab, and on the payment step the
\* passengers tab, is enabled in every state, and the click on it changes
\* the step and nothing else of the wizard, of HomePage or of the requests
\* in flight.
C18_BackwardNavigationKeepsData ==
    [][/\ (Mounted /\ currentStep = "passengers")
            => ~TabDisabled(W, "seats") /\ ENABLED ClickTab("seats")
       /\ (Mounted /\ currentStep = "payment")
            => ~TabDisabled(W, "passengers") /\ ENABLED ClickTab("passengers")
       /\ ((currentStep = "passengers" /\ ClickTab("seats"))
             \/ (currentStep = "payment" /\ ClickTab("passengers")))
            => UNCHANGED <<selectedSeats, passengerDetails, isLoading, homeVars, netVars>>]_vars

\* back on the seat step with a roster entry that has been filled in
C18_Witness ==
    /\ Mounted /\ currentStep = "seats"
    /\ lastCall = Call("setCurrentStep", "set")
    /\ \E i \in 1..Len(passengerDetails) : passengerDetails[i] # Blank

\* C19: a failed booking request leaves the wizard's step, selection and
\* roster and the HomePage state as they are and, when it is the request of
\* the wizard shown, leaves the submit button enabled; a failed seat-map
\* load leaves the result list, the bus, the seat map, the booking and the
\* wizard as they are and ends the loading that hides the result list.
C19_FailureKeepsStepAndData ==
    [][/\ \A i \in 1..Len(bookReqs) :
             BookingFails(i)
                 => /\ UNCHANGED <<selectedSeats, passengerDetails, currentStep, homeVars>>
                    /\ bookReqs[i].own => ~isLoading'
       /\ \A i \in 1..Len(seatReqs) :
             SeatsFails(i)
                 => /\ UNCHANGED <<searchResults, selectedBus, seats, booking, wizVars>>
                    /\ ~loading']_vars

\* a transport failure of the wizard's request has been reported and the
\* submit button can be clicked again
C19_Witness ==
    /\ Mounted /\ currentStep = "payment"
    /\ lastCall = Call("handleBooking", "catch")
    /\ toast = ToastBookingFailed("FetchError")
    /\ ENABLED SubmitClick

\* C20: handlePassengerDetailChange called with a position past the end
\* of the roster leaves the roster, and the whole wizard state, unchanged.
C20_OutOfRangeUpdateRejected ==
    Mounted => \A index \in (Len(passengerDetails) + 1)..(Len(passengerDetails) + 2),
                  field \in Fields :
                  \A value \in InputValues(field) :
                      handlePassengerDetailChange(W, index, field, value) = W

\* the three totals of a wizard state are seats times price
TotalsAgree(w, bus) ==
    LET due == Amount(Len(w.selectedSeats) * PriceOf(bus))
    IN /\ Len(w.selectedSeats) > 0 => SeatStepTotal(w, bus) = due
       /\ PaymentSummaryTotal(w, bus) = due
       /\ ~w.isLoading => SubmitLabelTotal(w, bus) = due
       /\ (PriceOf(bus) = 500 /\ Len(w.selectedSeats) = 2)
            => PaymentSummaryTotal(w, bus).amount = 1000
       /\ (PriceOf(bus) = 500 /\ Len(w.selectedSeats) = 1)
            => PaymentSummaryTotal(w, bus).amount = 500

\* C21: wherever the wizard shows a total (seat step with a selection,
\* payment summary, submit button when not submitting) it is the number of
\* selected seats times the price of the bus, now and after any toggle; at
\* price 500 two seats show 1000 and one seat shows 500.
C21_TotalIsSeatsTimesPrice ==
    Mounted => /\ TotalsAgree(W, selectedBus)
               /\ \A seat \in Grid : TotalsAgree(handleSeatClick(W, seat), selectedBus)

\* one of two selected seats has just been deselected and the total is 500
C21_Witness ==
    /\ Mounted /\ lastCall = Call("handleSeatClick", "deselect")
    /\ Len(selectedSeats) = 1
    /\ SeatStepTotal(W, selectedBus) = Amount(500)

\* C22: a click on a free seat that is not selected, with fewer than six
\* seats selected, yields the selection with that seat appended at its end;
\* the seats selected before keep their positions.
C22_SelectAppendsAtEnd ==
    Mounted => \A seat \in Grid :
                  (~seat.is_booked /\ ~IsSelected(seat) /\ Len(selectedSeats) < 6)
                      => handleSeatClick(W, seat).selectedSeats
                             = Append(selectedSeats, seat.seat_number)

\* a selection in click order that is not in seat-number order
C22_Witness ==
    /\ lastCall = Call("handleSeatClick", "select")
    /\ Len(selectedSeats) >= 2
    /\ selectedSeats[Len(selectedSeats)] < selectedSeats[1]

\* no element occurs at two positions
NoDuplicates(sel) == \A i, j \in 1..Len(sel) : sel[i] = sel[j] => i = j

\* C23: the selection never holds the same seat number twice, and no click
\* on a seat of the grid makes it do so.
C23_NoDuplicateSeats ==
    /\ NoDuplicates(selectedSeats)
    /\ \A seat \in Grid : NoDuplicates(handleSeatClick(W, seat).selectedSeats)

\* six seats are selected, seat 1 clicked last
C23_Witness ==
    /\ lastCall = Call("handleSeatClick", "select")
    /\ Len(selectedSeats) = MaxSelectable
    /\ selectedSeats[MaxSelectable] = 1

\* C24: a click that selects a seat gives it the blank roster entry and
\* leaves the entries of the seats selected before as they are.
C24_NewSeatGetsBlankEntry ==
    Mounted => \A seat \in Grid :
                  SeatClickBranch(W, seat) = "select"
                      => LET w1 == handleSeatClick(W, seat)
                             n == Len(selectedSeats)
                         IN /\ Len(w1.passengerDetails) = n + 1
                            /\ w1.passengerDetails[n + 1] = Blank
                            /\ \A i \in 1..n : w1.passengerDetails[i] = passengerDetails[i]

\* a seat has just been selected in a run in which passenger fields were
\* edited, and every entry is blank
C24_Witness ==
    /\ lastCall = Call("handleSeatClick", "select")
    /\ edits > 0
    /\ Len(selectedSeats) > 0
    /\ \A i \in 1..Len(passengerDetails) : passengerDetails[i] = Blank

\* C25: while the wizard is shown, on the passenger step and on the payment
\* step the selection is not empty, and on the payment step every roster
\* entry has a non-empty name and a non-empty age.
C25_StepImpliesData ==
    Mounted =>
        /\ currentStep \in {"passengers", "payment"} => Len(selectedSeats) > 0
        /\ currentStep = "payment"
              => \A i \in 1..Len(passengerDetails) :
                    passengerDetails[i].name # "" /\ passengerDetails[i].age # ""

\* the payment step has just been entered with name and age filled in
C25_Witness ==
    /\ Mounted /\ currentStep = "payment"
    /\ Len(selectedSeats) > 0
    /\ lastCall = Call("setCurrentStep", "set")
    /\ edits >= 2

\* C26: with no user logged in, handleBooking (and so a submit click)
\* issues no request and changes neither selection, roster, step and
\* submitting flag nor HomePage; it raises the login toast.
C26_UnauthenticatedSubmitIsNoOp ==
    (Mounted /\ user = Null)
        => /\ ~ENABLED (handleBooking /\ ~UNCHANGED <<wizVars, netVars, homeVars>>)
           /\ ~ENABLED (handleBooking /\ toast' # ToastLoginToBook)
           /\ ~ENABLED (SubmitClick /\ ~UNCHANGED <<wizVars, netVars, homeVars>>)

\* the submit button has just been clicked after a logout during the session
C26_Witness ==
    /\ Mounted /\ user = Null /\ currentStep = "payment"
    /\ lastCall = Call("handleBooking", "nouser")
    /\ toast = ToastLoginToBook
    /\ bookReqs = <<>> /\ ~isLoading

\* C27: while the wizard is shown its submitting flag is true exactly when
\* a booking request issued by this wizard instance is in flight.
C27_LoadingIffOwnRequestInFlight ==
    Mounted => (isLoading <=> OwnInFlight)

\* the wizard has just issued its request and is submitting
C27_Witness ==
    /\ Mounted /\ isLoading
    /\ Len(bookReqs) = 1 /\ bookReqs[1].own
    /\ lastCall = Call("handleBooking", "post")

\* C28: a step that closes the wizard is Back to Results or the success of
\* a request of the wizard shown, and a search response arriving while the
\* wizard is shown leaves it shown with its selection and roster.
C28_ClosedOnlyByBackOrOwnSuccess ==
    [][/\ (Mounted /\ ~Mounted')
            => \/ BackToResults
               \/ \E i \in 1..Len(bookReqs) : bookReqs[i].own /\ BookingSucceeds(i)
       /\ (Mounted /\ SearchSucceeds)
            => Mounted' /\ UNCHANGED <<selectedSeats, passengerDetails>>]_vars

\* C29: whenever AuthProvider holds a user it holds a token.
C29_UserImpliesToken == user # Null => token # NoToken

\* C30: whenever MyBookings shows its list the page is at least 1 and at
\* most the totalPages of the list shown.
C30_PageWithinTotalPages ==
    ~bookingsLoading => (1 <= page /\ page <= totalPages)

====
